---- MODULE Spec2Model ----
(***************************************************************************)
(* Model of src/main.go: the multipart part planner (optimalPartInfo), the *)
(* chunk hasher (hashCopyN) and the upload orchestrator (PutStream).       *)
(*                                                                         *)
(* Byte counts are Go int64 values.  TLC integers are 32 bits wide, and    *)
(* the program's constants (640 GiB) are not, so an int64 is modelled as   *)
(* three limbs  h * 2^44 + m * 2^22 + l  with 0 <= m, l < 2^22 and         *)
(* -2^19 <= h < 2^19: exactly the two's complement range of 64 bits, with  *)
(* arithmetic wrapping modulo 2^64.                                        *)
(***************************************************************************)
EXTENDS Integers, Sequences, FiniteSets, TLC

VARIABLES
    goarch,             \* the build: decides the float64 -> int conversions Go leaves open
    objectSize,         \* planner harness: the argument of optimalPartInfo
    plan,               \* planner harness: the result of optimalPartInfo, once called
    src,                \* the reader: [len, endless]
    pos,                \* bytes of the reader consumed so far
    pc,                 \* position of PutStream
    uploadID,           \* line 159
    size,               \* line 165
    totalPartsCount,    \* line 168
    partSize,           \* line 168
    partsInfo,          \* line 176: map part number -> ObjectPart
    partNumber,         \* line 179
    tmpBuffer,          \* line 182: the chunks written since the last Reset
    prtSize,            \* line 193
    rErr,               \* line 193
    hashSums,           \* line 187
    totalUploadedSize,  \* line 153
    complParts,         \* line 156: complMultipartUpload.Parts
    ret,                \* the (n, err) PutStream returned, once it returned
    initCalls,          \* store log: the outcome of every NewMultipartUpload call
    reads,              \* reader log: the result of every hashCopyN call
    uploads,            \* store log: every PutObjectPart call, with its outcome
    completes,          \* store log: the part list of every CompleteMultipartUpload call
    session             \* store: the state of the multipart upload session of this object

vars == <<goarch, objectSize, plan, src, pos, pc, uploadID, size, totalPartsCount,
          partSize, partsInfo, partNumber, tmpBuffer, prtSize, rErr, hashSums,
          totalUploadedSize, complParts, ret, initCalls, reads, uploads, completes, session>>

---------------------------------------------------------------------------
(* int64 arithmetic *)

Limb == 2^22
TopLimb == 2^20

\* The int64 with the given limb sums, carries propagated, wrapped modulo 2^64.
I64Norm(h, m, l) ==
    LET l1 == l % Limb
        m0 == m + ((l - l1) \div Limb)
        m1 == m0 % Limb
        h0 == (h + ((m0 - m1) \div Limb)) % TopLimb
    IN  [h |-> IF h0 >= TopLimb \div 2 THEN h0 - TopLimb ELSE h0, m |-> m1, l |-> l1]

\* int64(n) of an integer that TLC can hold.
I64Of(n) == I64Norm(0, 0, n)

I64Zero == I64Of(0)
I64One == I64Of(1)

I64Add(a, b) == I64Norm(a.h + b.h, a.m + b.m, a.l + b.l)
I64Sub(a, b) == I64Norm(a.h - b.h, a.m - b.m, a.l - b.l)

\* a < b, signed.
I64Less(a, b) ==
    \/ a.h < b.h
    \/ a.h = b.h /\ a.m < b.m
    \/ a.h = b.h /\ a.m = b.m /\ a.l < b.l

I64Leq(a, b) == ~I64Less(b, a)

\* The six 11-bit digits of a (the top one has 9 bits), lowest first.
Half == 2^11

I64Digits(a) ==
    LET top == a.h % TopLimb
    IN  <<a.l % Half, a.l \div Half, a.m % Half, a.m \div Half, top % Half, top \div Half>>

\* The int64 of six digit sums, lowest first: the carries propagated upwards, the
\* bits past bit 63 dropped.
I64Carry4(e0, e1, e2, e3, t4, c5) ==
    I64Norm((t4 % Half) + ((c5 + (t4 \div Half)) % (TopLimb \div Half)) * Half,
            e2 + e3 * Half, e0 + e1 * Half)
I64Carry3(e0, e1, e2, t3, c4, c5) ==
    I64Carry4(e0, e1, e2, t3 % Half, c4 + (t3 \div Half), c5)
I64Carry2(e0, e1, t2, c3, c4, c5) ==
    I64Carry3(e0, e1, t2 % Half, c3 + (t2 \div Half), c4, c5)
I64Carry1(e0, t1, c2, c3, c4, c5) ==
    I64Carry2(e0, t1 % Half, c2 + (t1 \div Half), c3, c4, c5)
I64Carry(c0, c1, c2, c3, c4, c5) ==
    I64Carry1(c0 % Half, c1 + (c0 \div Half), c2, c3, c4, c5)

\* The schoolbook product of two digit sequences.
I64MulDigits(x, y) ==
    I64Carry(x[1] * y[1],
             x[1] * y[2] + x[2] * y[1],
             x[1] * y[3] + x[2] * y[2] + x[3] * y[1],
             x[1] * y[4] + x[2] * y[3] + x[3] * y[2] + x[4] * y[1],
             x[1] * y[5] + x[2] * y[4] + x[3] * y[3] + x[4] * y[2] + x[5] * y[1],
             x[1] * y[6] + x[2] * y[5] + x[3] * y[4] + x[4] * y[3] + x[5] * y[2]
                + x[6] * y[1])

\* a * b modulo 2^64.
I64Mul(a, b) == I64MulDigits(I64Digits(a), I64Digits(b))

\* q * b <= r
I64Fits(q, b, r) == I64Leq(I64Mul(b, I64Of(q)), r)

\* The largest q in lo .. lo + 31 with q * b <= r.
I64QuotLow(lo, r, b) ==
    CHOOSE q \in lo .. lo + 31 :
        I64Fits(q, b, r) /\ (q = lo + 31 \/ ~I64Fits(q + 1, b, r))

\* The digit q in 0 .. Half-1 with q*b <= r < (q+1)*b, for 0 <= r < Half*b.
I64QuotDigit(r, b) ==
    I64QuotLow(32 * (CHOOSE q \in 0 .. 63 :
                         I64Fits(32 * q, b, r) /\ (q = 63 \/ ~I64Fits(32 * (q + 1), b, r))),
               r, b)

\* One step of the long division of a by b: from d, the quotient and remainder
\* of a / (Half * b), and q, the next digit of the quotient.
I64DivStep(d, b, q) ==
    [q |-> I64Add(I64Mul(d.q, I64Of(Half)), I64Of(q)),
     r |-> I64Sub(d.r, I64Mul(b, I64Of(q)))]

I64DivDigit(d, b) == I64DivStep(d, b, I64QuotDigit(d.r, b))

\* Quotient and remainder of a / b for 0 <= a < 2^52 and b > 0 (Go's int64 /
\* truncates, which for these signs is the floor): long division in base 2^11.
RECURSIVE I64DivMod(_, _)
I64DivMod(a, b) ==
    IF I64Less(a, b) THEN [q |-> I64Zero, r |-> a]
    ELSE I64DivDigit(I64DivMod(a, I64Mul(b, I64Of(Half))), b)

I64Div(a, b) == I64DivMod(a, b).q

\* The integer n of an int64 that TLC can hold (|n| < 2^31).
I64Int(a) == (a.h * Limb + a.m) * Limb + a.l

MinInt64 == [h |-> 0 - (TopLimb \div 2), m |-> 0, l |-> 0]
MaxInt64 == [h |-> (TopLimb \div 2) - 1, m |-> Limb - 1, l |-> Limb - 1]

---------------------------------------------------------------------------
(* float64 arithmetic of optimalPartInfo.  Every float64 the function      *)
(* computes from a size below 2^53 is a non-negative integer value, +Inf   *)
(* or NaN; integers below 2^53 are exact in a float64, and the correctly   *)
(* rounded quotient of two of them lies strictly between the same two      *)
(* integers as the exact quotient, so math.Ceil of it is the exact         *)
(* ceiling.                                                                *)

\* The ceiling of a quotient, from d, its floor and remainder.
CeilOf(d) == IF d.r = I64Zero THEN d.q ELSE I64Add(d.q, I64One)

\* math.Ceil(float64(a) / float64(b)) for 0 <= a < 2^52 and b > 0.
CeilDiv(a, b) == CeilOf(I64DivMod(a, b))

\* int(+Inf): the Go specification leaves the result to the implementation;
\* amd64 yields the "integer indefinite" value, arm64 saturates.
IntOfPosInf(arch) == IF arch = "amd64" THEN MinInt64 ELSE MaxInt64

\* int(NaN): amd64 yields the "integer indefinite" value, arm64 yields 0.
IntOfNaN(arch) == IF arch = "amd64" THEN MinInt64 ELSE I64Zero

GoArchs == {"amd64", "arm64"}

---------------------------------------------------------------------------
(* optimalPartInfo *)

maxPartsCount == 10000
minPartSize == 1024 * 1024 * 64
maxMultipartPutObjectSize == I64Mul(I64Of(1024 * 1024 * 1024), I64Of(640))

UnknownSize == I64Of(-1)

\* Lines 75-76, partSizeFlt.  The division of line 75 is an int64 division, so
\* math.Ceil of its (integer) result changes nothing.
PartSizeFlt(sz) ==
    I64Mul(CeilDiv(I64Div(sz, I64Of(maxPartsCount)), I64Of(minPartSize)),
           I64Of(minPartSize))

\* Line 79, totalPartsCount: a division by zero gives +Inf, or NaN for 0 / 0.
TotalPartsCount(arch, sz, partSizeFlt) ==
    IF partSizeFlt # I64Zero THEN CeilDiv(sz, partSizeFlt)
    ELSE IF sz = I64Zero THEN IntOfNaN(arch)
    ELSE IntOfPosInf(arch)

\* Lines 82-86.
PartInfo(sz, parts, partSizeFlt) ==
    [totalPartsCount |-> parts,
     partSize |-> partSizeFlt,
     lastPartSize |-> I64Sub(sz, I64Mul(I64Sub(parts, I64One), partSizeFlt)),
     err |-> "nil"]

\* Lines 75-86, for the size after the substitution of lines 69-71.
PartInfoOfSize(arch, sz, partSizeFlt) ==
    PartInfo(sz, TotalPartsCount(arch, sz, partSizeFlt), partSizeFlt)

\* optimalPartInfo as built for arch.
optimalPartInfoOn(arch, objSize) ==
    IF objSize = UnknownSize
    THEN PartInfoOfSize(arch, maxMultipartPutObjectSize, PartSizeFlt(maxMultipartPutObjectSize))
    ELSE PartInfoOfSize(arch, objSize, PartSizeFlt(objSize))

optimalPartInfo(objSize) == optimalPartInfoOn(goarch, objSize)

---------------------------------------------------------------------------
(* The planner on its own: optimalPartInfo applied to one size. *)

\* Bounds of the sizes tried: multiples of minPartSize up to MaxPlanMultiple,
\* and the multiples around maxPartsCount and maxMultipartPutObjectSize.
MaxPlanMultiple == 3
PlanMultiples == (0 .. MaxPlanMultiple)
                 \cup {maxPartsCount - 1, maxPartsCount, 2 * maxPartsCount, 10239, 10240}
PlanOffsets == {0, 1, 8 * 1024 * 1024, maxPartsCount - 1, maxPartsCount, minPartSize - 1}

PlanSizes ==
    {UnknownSize} \cup
    {I64Add(I64Mul(I64Of(k), I64Of(minPartSize)), I64Of(c)) : k \in PlanMultiples, c \in PlanOffsets}

NoPlan == [called |-> FALSE, totalPartsCount |-> I64Zero, partSize |-> I64Zero,
           lastPartSize |-> I64Zero, err |-> "nil"]

CallOptimalPartInfo ==
    /\ ~plan.called
    /\ plan' = [called |-> TRUE] @@ optimalPartInfo(objectSize)
    /\ UNCHANGED <<goarch, objectSize, src, pos, pc, uploadID, size, totalPartsCount,
                   partSize, partsInfo, partNumber, tmpBuffer, prtSize, rErr, hashSums,
                   totalUploadedSize, complParts, ret, initCalls, reads, uploads,
                   completes, session>>

---------------------------------------------------------------------------
(* The reader and the store *)

\* The plan PutStream works with: line 165 fixes size to -1, for which the plan
\* is the same on every build.
StreamPlan == optimalPartInfoOn("amd64", UnknownSize)

\* Bounds of the streams tried: up to MaxFullParts whole parts and a tail.
MaxFullParts == 2
TailsOf(ps) == {I64Zero, I64One, I64Sub(ps, I64One)}

StreamOf(parts, tail, ps) ==
    [len |-> I64Add(I64Mul(I64Of(parts), ps), tail), endless |-> FALSE]

StreamsOf(first, last, ps) == {StreamOf(p, t, ps) : p \in first .. last, t \in TailsOf(ps)}

Streams == StreamsOf(0, MaxFullParts, StreamPlan.partSize)

\* Bytes a faulting read may have delivered before the fault.
FaultPartials == {0, 1}

\* The bytes of the reader not yet consumed (meaningless for an endless reader).
Remaining == I64Sub(src.len, pos)

\* What the store answers to a successful PutObjectPart: the part metadata, with
\* the requested part number and an eTag that stands for the part's content.
StoreObjectPart(pn, sz, md5) == [ETag |-> <<"etag", md5>>, PartNumber |-> pn, Size |-> sz]

---------------------------------------------------------------------------
(* hashCopyN *)

\* A hash.Hash is modelled by the chunks written to it; Sum by the algorithm
\* and those chunks.
HashSum(alg, fed) == <<alg, fed>>

\* CopyN with the end of the stream not signalled.
CopyNNoEOF(n) ==
    IF src.endless \/ I64Leq(n, Remaining)
    THEN [written |-> n, err |-> "nil"]
    ELSE [written |-> Remaining, err |-> "nil"]

\* CopyN with the end of the stream signalled as soon as the reader is drained.
CopyNEagerEOF(n) ==
    IF src.endless \/ I64Less(n, Remaining)
    THEN [written |-> n, err |-> "nil"]
    ELSE [written |-> Remaining, err |-> "EOF"]

\* io.CopyN(hashWriter, reader, n) without a read fault: n bytes and nil when
\* the reader has them, else what is left and io.EOF.
CopyN(n) ==
    IF src.endless \/ I64Leq(n, Remaining)
    THEN [written |-> n, err |-> "nil"]
    ELSE [written |-> Remaining, err |-> "EOF"]

\* What the reader does during one copy: no fault, or a fault after some bytes.
NoFault == [faulty |-> FALSE, copied |-> 0]
FaultAfter(w) == [faulty |-> TRUE, copied |-> w]

\* hashCopyN(hashAlgos, hashSums, tmpBuffer, reader, n) under the given reader
\* behaviour.  hashAlgos gives, for each algorithm, the chunks its hasher was fed
\* before the call.  The result carries the new buffer, the new reader position
\* and the hashSums map.
hashCopyN(hashAlgos, buf, n, fault) ==
    IF fault.faulty
    THEN \* lines 112-117
         [size |-> I64Zero, err |-> "ErrRead", hashSums |-> << >>,
          buf |-> Append(buf, [off |-> pos, len |-> I64Of(fault.copied)]),
          pos |-> I64Add(pos, I64Of(fault.copied))]
    ELSE \* lines 111, 120-123
         LET c == CopyN(n)
             chunk == [off |-> pos, len |-> c.written]
         IN  [size |-> c.written, err |-> c.err,
              hashSums |-> [md5 |-> HashSum("md5", Append(hashAlgos.md5, chunk)),
                            sha256 |-> HashSum("sha256", Append(hashAlgos.sha256, chunk))],
              buf |-> Append(buf, chunk),
              pos |-> I64Add(pos, c.written)]

---------------------------------------------------------------------------
(* PutStream *)

NotReturned == [returned |-> FALSE, n |-> I64Zero, err |-> "nil"]
Return(n, err) == [returned |-> TRUE, n |-> n, err |-> err]

\* LoopHead with the test off by one: one iteration more than the plan has parts.
LoopHeadOneMore(pn, total) ==
    IF I64Leq(I64Of(pn), I64Add(total, I64One)) THEN "hashCopyN" ELSE "verify"

\* The test of the for statement, line 184: the loop body or what follows it.
LoopHead(pn, total) == IF I64Leq(I64Of(pn), total) THEN "hashCopyN" ELSE "verify"

\* MapPut under the part number after the one transferred.
MapPutNext(map, pn, part) ==
    [k \in (DOMAIN map) \cup {pn + 1} |-> IF k = pn + 1 THEN part ELSE map[k]]

\* partsInfo[pn] = part, line 213.
MapPut(map, pn, part) ==
    [k \in (DOMAIN map) \cup {pn} |-> IF k = pn THEN part ELSE map[k]]

\* sort.Sort(completedParts(parts)), lines 93-95 and 254: ascending by PartNumber.
\* (sort.Sort is not stable; entries of equal PartNumber keep their order here.)
SortParts(parts) ==
    IF \A i \in 1 .. Len(parts) - 1 : parts[i].PartNumber < parts[i + 1].PartNumber
    THEN parts
    ELSE LET Rank(j) == Cardinality({k \in 1 .. Len(parts) :
                            \/ parts[k].PartNumber < parts[j].PartNumber
                            \/ parts[k].PartNumber = parts[j].PartNumber /\ k <= j})
         IN  [i \in 1 .. Len(parts) |-> parts[CHOOSE j \in 1 .. Len(parts) : Rank(j) = i]]

\* Lines 128-156: the client is created; a failure returns (0, err).
NewClient ==
    /\ pc = "newClient"
    /\ \E ok \in BOOLEAN :
        IF ok
        THEN /\ pc' = "newMultipartUpload"
             /\ UNCHANGED ret
        ELSE /\ pc' = "done"
             /\ ret' = Return(I64Zero, "ErrNewClient")
    /\ UNCHANGED <<goarch, objectSize, plan, src, pos, uploadID, size, totalPartsCount,
                   partSize, partsInfo, partNumber, tmpBuffer, prtSize, rErr, hashSums,
                   totalUploadedSize, complParts, initCalls, reads, uploads, completes, session>>

\* AfterInitFailure with the return forgotten: PutStream goes on to plan.
AfterInitFailureGoOn == "optimalPartInfo"

\* Line 162: the return after a failed NewMultipartUpload ends PutStream.
AfterInitFailure == "done"

\* Lines 159-163.
NewMultipartUpload ==
    /\ pc = "newMultipartUpload"
    /\ \E ok \in BOOLEAN :
        /\ initCalls' = Append(initCalls, ok)
        /\ IF ok
           THEN /\ uploadID' = "uploadID"
                /\ session' = "open"
                /\ pc' = "optimalPartInfo"
                /\ UNCHANGED ret
           ELSE /\ pc' = AfterInitFailure
                /\ ret' = Return(I64Zero, "ErrNewMultipartUpload")
                /\ UNCHANGED <<uploadID, session>>
    /\ UNCHANGED <<goarch, objectSize, plan, src, pos, size, totalPartsCount,
                   partSize, partsInfo, partNumber, tmpBuffer, prtSize, rErr, hashSums,
                   totalUploadedSize, complParts, reads, uploads, completes>>

\* Lines 165-184: the plan for the unknown size, the parts map, the part number,
\* the buffer, and the first test of the loop.
PlanParts ==
    /\ pc = "optimalPartInfo"
    /\ LET p == optimalPartInfo(UnknownSize)
       IN  /\ size' = UnknownSize
           /\ totalPartsCount' = p.totalPartsCount
           /\ partSize' = p.partSize
           /\ IF p.err # "nil"
              THEN /\ pc' = "done"
                   /\ ret' = Return(I64Zero, p.err)
              ELSE /\ pc' = LoopHead(1, p.totalPartsCount)
                   /\ UNCHANGED ret
    /\ partsInfo' = << >>
    /\ partNumber' = 1
    /\ tmpBuffer' = << >>
    /\ UNCHANGED <<goarch, objectSize, plan, src, pos, uploadID, prtSize, rErr, hashSums,
                   totalUploadedSize, complParts, initCalls, reads, uploads, completes, session>>

\* Line 197: what PutStream returns when the chunk copy failed.
ReadFailure(total, err) == Return(I64Zero, err)

\* NewHash with the hasher of the iteration before used again: what it was fed
\* stays in it.
NewHashCarried(fedBefore) == fedBefore

\* md5.New(), sha256.New(), lines 189-190: a hasher that was fed nothing.
NewHash(fedBefore) == << >>

\* What the hasher of the iteration before was fed (nothing before the first
\* Sum): hashSums keeps the last sums, and a sum is modelled by what was fed.
FedBefore(alg) == IF hashSums = << >> THEN << >> ELSE hashSums[alg][2]

\* Lines 185-198: fresh hashers, the chunk copy, and the return on a read fault.
ReadChunk ==
    /\ pc = "hashCopyN"
    /\ \E fault \in {NoFault} \cup
                    {FaultAfter(w) : w \in {v \in FaultPartials :
                                           /\ I64Less(I64Of(v), partSize)
                                           /\ src.endless \/ I64Leq(I64Of(v), Remaining)}} :
        LET hashAlgos == [md5 |-> NewHash(FedBefore("md5")),
                          sha256 |-> NewHash(FedBefore("sha256"))]
            r == hashCopyN(hashAlgos, tmpBuffer, partSize, fault)
        IN  /\ prtSize' = r.size
            /\ rErr' = r.err
            /\ hashSums' = r.hashSums
            /\ tmpBuffer' = r.buf
            /\ pos' = r.pos
            /\ reads' = Append(reads, [size |-> r.size, err |-> r.err])
            /\ IF r.err # "nil" /\ r.err # "EOF"
               THEN /\ pc' = "done"
                    /\ ret' = ReadFailure(totalUploadedSize, r.err)
               ELSE /\ pc' = "putObjectPart"
                    /\ UNCHANGED ret
    /\ UNCHANGED <<goarch, objectSize, plan, src, uploadID, size, totalPartsCount,
                   partSize, partsInfo, partNumber, totalUploadedSize, complParts,
                   initCalls, uploads, completes, session>>

\* UploadFailure with the running total dropped, as on the read fault path.
UploadFailureZero(total) == Return(I64Zero, "ErrPutObjectPart")

\* Line 209: what PutStream returns when the part transfer failed.
UploadFailure(total) == Return(total, "ErrPutObjectPart")

\* NextPartNumber with the increment forgotten.
NextPartNumberSame(pn) == pn

\* Line 222.
NextPartNumber(pn) == pn + 1

\* BreakOnEOF with the break forgotten: the loop goes on to its test.
BreakNever(sz, err) == FALSE

\* Line 226: the break after the part whose chunk copy met the end of the stream.
BreakOnEOF(sz, err) == I64Less(sz, I64Zero) /\ err = "EOF"

\* AfterUploadFailure with the return forgotten: PutStream goes on to complete.
AfterUploadFailureGoOn == "verify"

\* Line 209: the return after a failed PutObjectPart ends PutStream.
AfterUploadFailure == "done"

\* Reset with the buffer left as it is.
ResetKeep(buf) == buf

\* tmpBuffer.Reset(), lines 208 and 216.
Reset(buf) == << >>

\* Lines 200-229: the part transfer, the bookkeeping after it, the break on
\* end-of-stream and the next test of the loop.
UploadPart ==
    /\ pc = "putObjectPart"
    /\ \E ok \in BOOLEAN :
        LET objPart == StoreObjectPart(partNumber, prtSize, hashSums.md5)
            call == [partNumber |-> partNumber, size |-> prtSize, data |-> tmpBuffer,
                     md5 |-> hashSums.md5, sha256 |-> hashSums.sha256,
                     ok |-> ok, objPart |-> objPart]
        IN  /\ uploads' = Append(uploads, call)
            /\ tmpBuffer' = Reset(tmpBuffer)
            /\ IF ~ok
               THEN /\ pc' = AfterUploadFailure
                    /\ ret' = UploadFailure(totalUploadedSize)
                    /\ UNCHANGED <<partsInfo, totalUploadedSize, partNumber>>
               ELSE /\ partsInfo' = MapPut(partsInfo, partNumber, objPart)
                    /\ totalUploadedSize' = I64Add(totalUploadedSize, prtSize)
                    /\ partNumber' = NextPartNumber(partNumber)
                    /\ pc' = IF BreakOnEOF(size, rErr)
                             THEN "verify"
                             ELSE LoopHead(NextPartNumber(partNumber), totalPartsCount)
                    /\ UNCHANGED ret
    /\ UNCHANGED <<goarch, objectSize, plan, src, pos, uploadID, size, totalPartsCount,
                   partSize, prtSize, rErr, hashSums, complParts, initCalls, reads,
                   completes, session>>

\* SizeKnown with the unknown size taken for a known one.
SizeKnownAlways(sz) == TRUE

\* Line 232: the size was known in advance.
SizeKnown(sz) == I64Less(I64Zero, sz)

\* Lines 231-254: the size check, the part list built from partsInfo, the sort.
CollectParts ==
    /\ pc = "verify"
    /\ IF SizeKnown(size) /\ totalUploadedSize # size
       THEN /\ pc' = "done"
            /\ ret' = Return(totalUploadedSize, "ErrUnexpectedEOF")
            /\ UNCHANGED complParts
       ELSE IF \E i \in 1 .. partNumber - 1 : i \notin DOMAIN partsInfo
       THEN /\ pc' = "done"
            /\ ret' = Return(I64Zero, "Missing part number")
            /\ UNCHANGED complParts
       ELSE /\ complParts' =
                   SortParts(complParts \o
                             [i \in 1 .. partNumber - 1 |->
                                 [ETag |-> partsInfo[i].ETag,
                                  PartNumber |-> partsInfo[i].PartNumber]])
            /\ pc' = "complete"
            /\ UNCHANGED ret
    /\ UNCHANGED <<goarch, objectSize, plan, src, pos, uploadID, size, totalPartsCount,
                   partSize, partsInfo, partNumber, tmpBuffer, prtSize, rErr, hashSums,
                   totalUploadedSize, initCalls, reads, uploads, completes, session>>

\* CompletionReturn with the total dropped when the completion failed.
CompletionReturnZero(total, err) == Return(IF err = "nil" THEN total ELSE I64Zero, err)

\* Line 258: the running total and whatever the completion call returned.
CompletionReturn(total, err) == Return(total, err)

\* Lines 255-258: the completion call and the return of the total and its error.
\* The store closes the session when the call succeeds and keeps it otherwise.
CompleteMultipartUpload ==
    /\ pc = "complete"
    /\ \E ok \in BOOLEAN :
        /\ completes' = Append(completes, complParts)
        /\ session' = IF ok THEN "completed" ELSE session
        /\ ret' = CompletionReturn(totalUploadedSize,
                                   IF ok THEN "nil" ELSE "ErrCompleteMultipartUpload")
    /\ pc' = "done"
    /\ UNCHANGED <<goarch, objectSize, plan, src, pos, uploadID, size, totalPartsCount,
                   partSize, partsInfo, partNumber, tmpBuffer, prtSize, rErr, hashSums,
                   totalUploadedSize, complParts, initCalls, reads, uploads>>

---------------------------------------------------------------------------
(* Specifications *)

\* PutStream before its first statement, with nothing logged.
Fresh ==
    /\ pos = I64Zero
    /\ uploadID = ""
    /\ size = I64Zero
    /\ totalPartsCount = I64Zero
    /\ partSize = I64Zero
    /\ partsInfo = << >>
    /\ partNumber = 0
    /\ tmpBuffer = << >>
    /\ prtSize = I64Zero
    /\ rErr = "nil"
    /\ hashSums = << >>
    /\ totalUploadedSize = I64Zero
    /\ complParts = << >>
    /\ ret = NotReturned
    /\ initCalls = << >>
    /\ reads = << >>
    /\ uploads = << >>
    /\ completes = << >>
    /\ session = "none"

\* PutStream on one stream, from its first statement.
Init ==
    /\ goarch \in GoArchs
    /\ objectSize = UnknownSize
    /\ plan = NoPlan
    /\ src \in Streams
    /\ pc = "newClient"
    /\ Fresh

Next ==
    \/ NewClient
    \/ NewMultipartUpload
    \/ PlanParts
    \/ ReadChunk
    \/ UploadPart
    \/ CollectParts
    \/ CompleteMultipartUpload

Spec == Init /\ [][Next]_vars

\* The state at the head of the loop after k iterations that each copied a whole
\* part and transferred it (StateAtLoopHead: under Spec every state at the head
\* of the loop is this one).
ChunkOfPart(i, ps) == [off |-> I64Mul(I64Of(i - 1), ps), len |-> ps]

UploadOfChunk(i, ps, chunk) ==
    [partNumber |-> i, size |-> ps, data |-> <<chunk>>,
     md5 |-> HashSum("md5", <<chunk>>), sha256 |-> HashSum("sha256", <<chunk>>),
     ok |-> TRUE, objPart |-> StoreObjectPart(i, ps, HashSum("md5", <<chunk>>))]

UploadOfPart(i, ps) == UploadOfChunk(i, ps, ChunkOfPart(i, ps))

AtLoopHeadOf(k, p) ==
    /\ uploads = [i \in 1 .. k |-> UploadOfPart(i, p.partSize)]
    /\ partsInfo = [i \in 1 .. k |-> uploads[i].objPart]
    /\ reads = [i \in 1 .. k |-> [size |-> p.partSize, err |-> "nil"]]
    /\ pos = I64Mul(I64Of(k), p.partSize)
    /\ totalUploadedSize = pos
    /\ uploadID = "uploadID"
    /\ size = UnknownSize
    /\ totalPartsCount = p.totalPartsCount
    /\ partSize = p.partSize
    /\ partNumber = k + 1
    /\ tmpBuffer = << >>
    /\ prtSize = IF k = 0 THEN I64Zero ELSE p.partSize
    /\ rErr = "nil"
    /\ hashSums = IF k = 0 THEN << >>
                  ELSE [md5 |-> uploads[k].md5, sha256 |-> uploads[k].sha256]
    /\ complParts = << >>
    /\ ret = NotReturned
    /\ initCalls = <<TRUE>>
    /\ completes = << >>
    /\ session = "open"

AtLoopHead(k) == AtLoopHeadOf(k, StreamPlan)

StateAtLoopHead == pc = "hashCopyN" => AtLoopHead(partNumber - 1)

\* PutStream near the cap of the loop: CapLead iterations before partNumber
\* passes totalPartsCount, on streams that end before, at and after the cap,
\* and on a reader that never ends.
CapLead == 2
CapStart == I64Int(StreamPlan.totalPartsCount) - CapLead

CapStreams ==
    StreamsOf(CapStart, CapStart + CapLead + 1, StreamPlan.partSize)
    \cup {[len |-> I64Zero, endless |-> TRUE]}

InitCap ==
    /\ goarch \in GoArchs
    /\ AtLoopHead(CapStart)
    /\ objectSize = UnknownSize
    /\ plan = NoPlan
    /\ src \in CapStreams
    /\ pc = "hashCopyN"

NextCap ==
    \/ ReadChunk
    \/ UploadPart
    \/ CollectParts
    \/ CompleteMultipartUpload

SpecCap == InitCap /\ [][NextCap]_vars

\* The positions of PutStream.
Positions == {"newClient", "newMultipartUpload", "optimalPartInfo", "hashCopyN",
              "putObjectPart", "verify", "complete", "done"}

\* PutStream moves on: it has a next statement as long as it has not returned,
\* and every action of it changes pc.
Proceed == pc # "done" /\ pc' \in Positions \ {pc}

\* PutStream near the cap of the loop, taking every step it can take: the code
\* is one sequential routine, and each call it makes to the reader or to the
\* store returns.  (An action of NextCap is enabled exactly when pc is not
\* "done", and it changes pc: this is weak fairness of NextCap.)
SpecCapFair == SpecCap /\ WF_pc(Proceed)

\* optimalPartInfo on one size.
InitPlan ==
    /\ goarch \in GoArchs
    /\ objectSize \in PlanSizes
    /\ plan = NoPlan
    /\ src = StreamOf(0, I64Zero, I64One)
    /\ pc = "idle"
    /\ Fresh

NextPlan == CallOptimalPartInfo

SpecPlan == InitPlan /\ [][NextPlan]_vars

---------------------------------------------------------------------------
(* Properties *)

\* The sum of the sizes of the first k PutObjectPart calls.
RECURSIVE SizeOfParts(_)
SizeOfParts(k) == IF k = 0 THEN I64Zero ELSE I64Add(SizeOfParts(k - 1), uploads[k].size)

\* C1: when PutObjectPart fails for part k after succeeding for parts 1..k-1,
\* PutStream has returned a non-nil error and the sum of the sizes of parts
\* 1..k-1; the failed call is the last PutObjectPart call, and no
\* CompleteMultipartUpload call is made.
FailurePropagation ==
    \A k \in 1 .. Len(uploads) :
        ~uploads[k].ok =>
            /\ k = Len(uploads)
            /\ \A i \in 1 .. k - 1 : uploads[i].ok
            /\ pc = "done"
            /\ ret.returned
            /\ ret.err # "nil"
            /\ ret.n = SizeOfParts(k - 1)
            /\ completes = << >>

\* Part 3 failed after parts 1 and 2 of a whole part size each.
FailurePropagationWitness ==
    /\ Len(uploads) = 3
    /\ ~uploads[3].ok
    /\ ret.returned
    /\ ret.n = I64Add(partSize, partSize)

\* The parts of a completion call, in the order of the list, carry consecutive
\* byte ranges of the reader that start at 0 and end at n.
PartsCover(parts, n) ==
    /\ Len(parts) >= 1
    /\ \A i \in 1 .. Len(parts) :
        /\ parts[i].PartNumber \in 1 .. Len(uploads)
        /\ Len(uploads[parts[i].PartNumber].data) = 1
    /\ uploads[parts[1].PartNumber].data[1].off = I64Zero
    /\ \A i \in 1 .. Len(parts) - 1 :
        /\ parts[i].PartNumber < parts[i + 1].PartNumber
        /\ uploads[parts[i + 1].PartNumber].data[1].off =
               I64Add(uploads[parts[i].PartNumber].data[1].off,
                      uploads[parts[i].PartNumber].data[1].len)
    /\ I64Add(uploads[parts[Len(parts)].PartNumber].data[1].off,
              uploads[parts[Len(parts)].PartNumber].data[1].len) = n

\* C2: when every call succeeded and no read failed, PutStream returns the
\* length N of the stream, and the parts passed to the completion call cover
\* [0, N) without gap or overlap.
RoundTrip ==
    (pc = "done" /\ ret.err = "nil" /\ ~src.endless) =>
        /\ ret.n = src.len
        /\ Len(completes) = 1
        /\ PartsCover(completes[1], src.len)

\* C3: on a stream shorter than the part size of the plan, PutStream makes at most
\* one PutObjectPart call, for part 1 with the length of the stream as its size,
\* and when every call succeeded it made exactly that call and then the one
\* CompleteMultipartUpload call.
UnknownSizeTermination ==
    (size = UnknownSize /\ ~src.endless /\ I64Less(src.len, partSize)) =>
        /\ Len(uploads) <= 1
        /\ \A i \in 1 .. Len(uploads) :
            uploads[i].partNumber = 1 /\ uploads[i].size = src.len
        /\ Len(completes) <= 1
        /\ completes # << >> => Len(uploads) = 1 /\ uploads[1].ok
        /\ (pc = "done" /\ ret.err = "nil") => Len(uploads) = 1 /\ Len(completes) = 1

\* A stream of one byte less than a part, uploaded and completed.
UnknownSizeTerminationWitness ==
    /\ pc = "done"
    /\ ret.err = "nil"
    /\ src.len = I64Sub(partSize, I64One)
    /\ Len(uploads) = 1
    /\ Len(completes) = 1

\* C4: when the chunk copy of iteration k fails with an error other than
\* end-of-stream, PutStream returns that error and the sum of the sizes of the
\* parts transferred in iterations 1..k-1, and the chunk of iteration k is not
\* transferred.
ReadFault ==
    (reads # << >> /\ reads[Len(reads)].err = "ErrRead") =>
        /\ pc = "done"
        /\ ret.returned
        /\ ret.err = "ErrRead"
        /\ Len(uploads) = Len(reads) - 1
        /\ \A i \in 1 .. Len(uploads) : uploads[i].ok
        /\ ret.n = SizeOfParts(Len(uploads))

\* C5: when NewMultipartUpload fails, PutStream has returned that error and 0,
\* has read nothing from the reader and has made no other call to the store.
InitFailure ==
    (initCalls # << >> /\ ~initCalls[1]) =>
        /\ pc = "done"
        /\ ret = Return(I64Zero, "ErrNewMultipartUpload")
        /\ Len(initCalls) = 1
        /\ reads = << >>
        /\ pos = I64Zero
        /\ uploads = << >>
        /\ completes = << >>

\* NewMultipartUpload was called and failed.
InitFailureWitness == initCalls = <<FALSE>> /\ ret.returned

\* x is a positive multiple of minPartSize.
PositiveMultiple(x) ==
    /\ I64Less(I64Zero, x)
    /\ I64DivMod(x, I64Of(minPartSize)).r = I64Zero

\* C6: for a known objectSize with 0 < objectSize <= maxMultipartPutObjectSize,
\* partSize is a positive multiple of minPartSize and totalPartsCount is at most
\* maxPartsCount.
PlannerBounds ==
    (/\ plan.called
     /\ objectSize # UnknownSize
     /\ I64Less(I64Zero, objectSize)
     /\ I64Leq(objectSize, maxMultipartPutObjectSize)) =>
        /\ PositiveMultiple(plan.partSize)
        /\ I64Leq(plan.totalPartsCount, I64Of(maxPartsCount))

\* The size the plan is made for: lines 69-71.
PlannedSize == IF objectSize = UnknownSize THEN maxMultipartPutObjectSize ELSE objectSize

\* C7: for objectSize >= 1 and for the unknown size, partSize is the smallest
\* multiple of minPartSize that is at least the exact quotient objectSize /
\* maxPartsCount, and totalPartsCount is the ceiling of objectSize / partSize;
\* 200 MiB gives 64 MiB, 4 parts and a last part of 8 MiB.
PlannerExactness ==
    (plan.called /\ I64Less(I64Zero, PlannedSize)) =>
        /\ PositiveMultiple(plan.partSize)
        /\ I64Leq(PlannedSize, I64Mul(plan.partSize, I64Of(maxPartsCount)))
        /\ I64Less(I64Mul(I64Sub(plan.partSize, I64Of(minPartSize)), I64Of(maxPartsCount)),
                   PlannedSize)
        /\ plan.totalPartsCount = CeilDiv(PlannedSize, plan.partSize)
        /\ objectSize = I64Of(200 * 1024 * 1024) =>
               /\ plan.partSize = I64Of(64 * 1024 * 1024)
               /\ plan.totalPartsCount = I64Of(4)
               /\ plan.lastPartSize = I64Of(8 * 1024 * 1024)

\* C8: for a known objectSize, (totalPartsCount-1)*partSize + lastPartSize is
\* objectSize, and totalPartsCount*partSize is at least objectSize.
PlannerCoverage ==
    (plan.called /\ objectSize # UnknownSize) =>
        /\ I64Add(I64Mul(I64Sub(plan.totalPartsCount, I64One), plan.partSize),
                  plan.lastPartSize) = objectSize
        /\ I64Leq(objectSize, I64Mul(plan.totalPartsCount, plan.partSize))

\* C9: the part list of a CompleteMultipartUpload call made after k successful
\* PutObjectPart calls has k entries, the i-th with part number i and the eTag
\* the store returned for part i; the "Missing part number" error is never
\* returned.
CompletionList ==
    /\ ret.err # "Missing part number"
    /\ \A c \in 1 .. Len(completes) :
        /\ \A i \in 1 .. Len(uploads) : uploads[i].ok
        /\ Len(completes[c]) = Len(uploads)
        /\ \A i \in 1 .. Len(uploads) :
            /\ completes[c][i].PartNumber = i
            /\ completes[c][i].ETag = uploads[i].objPart.ETag

\* A completion call after three parts.
CompletionListWitness == Len(completes) = 1 /\ Len(completes[1]) = 3

\* C10: the i-th PutObjectPart call carries part number i, and every call but
\* the last one succeeded.
PartOrdering ==
    \A i \in 1 .. Len(uploads) :
        /\ uploads[i].partNumber = i
        /\ i < Len(uploads) => uploads[i].ok

\* Three PutObjectPart calls, the third successful too.
PartOrderingWitness == Len(uploads) = 3 /\ uploads[3].ok

\* C11: when the chunk copy of iteration k met the end of the stream, that read
\* is the last one, its chunk is transferred as part k with the size read, and
\* once that transfer succeeded there is no further PutObjectPart call and the
\* next call to the store is the one CompleteMultipartUpload call.
EndOfStreamEndsLoop ==
    \A k \in 1 .. Len(reads) :
        reads[k].err = "EOF" =>
            /\ k = Len(reads)
            /\ Len(uploads) \in {k - 1, k}
            /\ Len(uploads) = k - 1 => pc = "putObjectPart"
            /\ Len(uploads) = k =>
                /\ uploads[k].partNumber = k
                /\ uploads[k].size = reads[k].size
                /\ Len(uploads[k].data) = 1
                /\ uploads[k].data[1].len = reads[k].size
                /\ uploads[k].ok =>
                    /\ pc \in {"verify", "complete", "done"}
                    /\ pc # "done" => completes = << >>
                    /\ pc = "done" => Len(completes) = 1

\* The second chunk copy met the end of the stream after one byte; part 2 was
\* transferred and the completion call made.
EndOfStreamEndsLoopWitness ==
    /\ Len(reads) = 2
    /\ reads[2] = [size |-> I64One, err |-> "EOF"]
    /\ Len(uploads) = 2
    /\ uploads[2].ok
    /\ Len(completes) = 1

\* C12: after the CompleteMultipartUpload call PutStream has returned the sum of
\* the sizes of all the parts, every one of them transferred, with the error of
\* the completion call: nil when the store completed the session, the
\* completion error when it did not.
CompletionFault ==
    completes # << >> =>
        /\ pc = "done"
        /\ ret.returned
        /\ \A i \in 1 .. Len(uploads) : uploads[i].ok
        /\ ret.n = SizeOfParts(Len(uploads))
        /\ ret.err = IF session = "completed" THEN "nil" ELSE "ErrCompleteMultipartUpload"

\* The completion call failed after two parts of a part and one byte in all.
CompletionFaultWitness ==
    /\ completes # << >>
    /\ session = "open"
    /\ ret.err = "ErrCompleteMultipartUpload"
    /\ Len(uploads) = 2
    /\ ret.n = I64Add(partSize, I64One)

\* The number of whole parts of the stream, and what is left after them.
WholeParts == I64DivMod(src.len, partSize)

\* C13: on a stream of exactly m parts, m >= 1, with every call successful:
\* when m is below totalPartsCount there are m + 1 PutObjectPart calls, m of a
\* whole part and the last one, part m + 1, of size 0; when m is
\* totalPartsCount there are m calls, each of a whole part.
TrailingZeroPart ==
    (/\ pc = "done"
     /\ ret.err = "nil"
     /\ ~src.endless
     /\ WholeParts.r = I64Zero
     /\ I64Leq(I64One, WholeParts.q)
     /\ I64Leq(WholeParts.q, totalPartsCount)) =>
        LET m == I64Int(WholeParts.q)
        IN  /\ \A i \in 1 .. m : uploads[i].size = partSize /\ uploads[i].ok
            /\ IF I64Less(WholeParts.q, totalPartsCount)
               THEN /\ Len(uploads) = m + 1
                    /\ uploads[m + 1].partNumber = m + 1
                    /\ uploads[m + 1].size = I64Zero
                    /\ uploads[m + 1].ok
               ELSE Len(uploads) = m

\* A stream of one part less than the plan allows, uploaded with a last part of
\* size 0 that brings the part number to totalPartsCount.
TrailingZeroPartWitness ==
    /\ pc = "done"
    /\ ret.err = "nil"
    /\ ~src.endless
    /\ src.len = I64Mul(I64Sub(totalPartsCount, I64One), partSize)
    /\ I64Of(Len(uploads)) = totalPartsCount
    /\ uploads[Len(uploads)].size = I64Zero

\* The loop has ended with every part transferred: by the break of line 226 or
\* by the test of line 184.
LoopEnded ==
    /\ uploads # << >>
    /\ uploads[Len(uploads)].ok
    /\ Len(reads) = Len(uploads)
    /\ \/ reads[Len(reads)].err = "EOF"
       \/ I64Of(Len(uploads)) = totalPartsCount

NoCleanupAfterFailure ==
    /\ Len(completes) <= 1
    /\ completes # << >> =>
        /\ initCalls = <<TRUE>>
        /\ \A i \in 1 .. Len(uploads) : uploads[i].ok
    /\ session \in {"none", "open", "completed"}
    /\ session = "completed" => Len(completes) = 1
    /\ (\/ initCalls = <<FALSE>>
        \/ \E i \in 1 .. Len(uploads) : ~uploads[i].ok
        \/ \E i \in 1 .. Len(reads) : reads[i].err = "ErrRead"
        \/ ret.err \in {"ErrNewClient", "ErrNewMultipartUpload", "ErrRead",
                        "ErrPutObjectPart"}) =>
        /\ pc = "done"
        /\ ret.returned
        /\ ret.err # "nil"
        /\ completes = << >>
        /\ session = IF initCalls = <<TRUE>> THEN "open" ELSE "none"

\* PutObjectPart failed for part 2: PutStream returned and the session is open.
NoCleanupAfterFailureWitness ==
    /\ Len(uploads) = 2
    /\ ~uploads[2].ok
    /\ pc = "done"
    /\ completes = << >>
    /\ session = "open"

\* The plan is not touched once the loop is entered.
PlanKept ==
    pc \in {"hashCopyN", "putObjectPart", "verify", "complete"} =>
        /\ totalPartsCount' = totalPartsCount
        /\ partSize' = partSize
        /\ size' = size

\* C16: on every stream, one that never ends too, and whatever the store
\* answers, PutStream returns; it makes at most totalPartsCount PutObjectPart
\* calls and as many chunk copies, and totalPartsCount is the plan of the
\* unknown size from the first iteration to the return.
LoopCap ==
    /\ <>(pc = "done")
    /\ [](/\ totalPartsCount = StreamPlan.totalPartsCount
          /\ I64Leq(I64Of(Len(uploads)), totalPartsCount)
          /\ I64Leq(I64Of(Len(reads)), totalPartsCount)
          /\ I64Leq(I64Of(partNumber), I64Add(totalPartsCount, I64One)))
    /\ [][PlanKept]_vars

\* A reader that never ends: PutStream returned after totalPartsCount parts.
LoopCapWitness ==
    /\ src.endless
    /\ pc = "done"
    /\ ret.err = "nil"
    /\ I64Of(Len(uploads)) = totalPartsCount
    /\ Len(completes) = 1

\* The number of bytes in a buffer: the sum of the chunks written to it.
RECURSIVE BufferLen(_)
BufferLen(buf) ==
    IF buf = << >> THEN I64Zero ELSE I64Add(BufferLen(Tail(buf)), Head(buf).len)

\* C17: the buffer is empty when an iteration starts and never holds more than
\* partSize bytes; the data of the k-th PutObjectPart call is the one chunk the
\* k-th chunk copy read, which starts where the chunk before it ended, and its
\* length is the size argument of the call.
BufferBound ==
    /\ pc = "hashCopyN" => tmpBuffer = << >>
    /\ I64Leq(BufferLen(tmpBuffer), partSize)
    /\ \A k \in 1 .. Len(uploads) :
        /\ Len(uploads[k].data) = 1
        /\ uploads[k].data[1].len = uploads[k].size
        /\ uploads[k].size = reads[k].size
        /\ I64Leq(uploads[k].size, partSize)
        /\ uploads[k].data[1].off =
               IF k = 1 THEN I64Zero
               ELSE I64Add(uploads[k - 1].data[1].off, uploads[k - 1].data[1].len)

\* Part 2 was handed the one byte that follows the first part.
BufferBoundWitness ==
    /\ Len(uploads) = 2
    /\ uploads[2].size = I64One
    /\ uploads[2].data = <<[off |-> partSize, len |-> I64One]>>

CompletionAfterExhaustion ==
    completes # << >> =>
        /\ ~src.endless
        /\ pos = src.len
        /\ reads # << >>
        /\ reads[Len(reads)].err = "EOF"

====
